---- MODULE Spec2Model ----
(***************************************************************************)
(* A model of aiohomekit's accessory database (aiohomekit/model):          *)
(* Accessories -> Accessory -> Service -> Characteristic, the Services     *)
(* query engine, and the serialize / create_from_dict round trip.          *)
(*                                                                         *)
(* Python objects are modelled by value.  A Service is identified by its   *)
(* position in its accessory's Services list (services are only ever       *)
(* appended), so a link holds a position, never an iid: two services with  *)
(* the same iid stay two different services, as two Python objects do.     *)
(***************************************************************************)
EXTENDS Integers, Sequences, FiniteSets, TLC

VARIABLES
    id_counter,   \* mixin.id_counter, the process-wide accessory id generator
    accessories,  \* Accessories.accessories: the caller's collection, a sequence of Accessory
    result,       \* what the last call returned or raised
    ops,          \* number of calls made so far (bounds the run)
    pc,           \* per thread: position inside Accessory.__init__
    obj,          \* per thread: the Accessory being constructed (aid 0: not yet assigned)
    handed,       \* the values get_id has returned, in order
    doc,          \* the serialized accessory list the caller holds as input
    file          \* the JSON text of the caller's file, << >> before it is written

vars == <<id_counter, accessories, result, ops, pc, obj, handed, doc, file>>

(***************************************************************************)
(* Bounds of the model.                                                    *)
(***************************************************************************)
MaxOps == 4          \* calls per run
MaxThreads == 2      \* threads constructing accessories concurrently

None == "None"

(***************************************************************************)
(* Sequence helpers.                                                       *)
(***************************************************************************)
Range(s) == {s[i] : i \in DOMAIN s}


\* The positions 1..n, in order.
Positions(n) == [i \in 1..n |-> i]

\* F applied to the value of x: a local binding whose value is computed once.
With(x, F(_)) == CHOOSE v \in {F(y) : y \in {x}} : TRUE

(***************************************************************************)
(* The type registries (ServicesTypes, CharacteristicsTypes): opaque       *)
(* lookup tables name -> uuid; a uuid resolves to itself.                  *)
(***************************************************************************)
ServiceUuid == [n \in {"accessory-information", "lightbulb", "switch"} |->
                  CASE n = "accessory-information" -> "3E"
                    [] n = "lightbulb" -> "43"
                    [] n = "switch" -> "49"]

CharUuid == [n \in {"identify", "name", "manufacturer", "model", "serial-number",
                    "firmware.revision", "on", "brightness"} |->
                  CASE n = "identify" -> "14"
                    [] n = "name" -> "23"
                    [] n = "manufacturer" -> "20"
                    [] n = "model" -> "21"
                    [] n = "serial-number" -> "30"
                    [] n = "firmware.revision" -> "52"
                    [] n = "on" -> "25"
                    [] n = "brightness" -> "8"]

ServicesTypes_get_uuid(t) ==
    IF t \in DOMAIN ServiceUuid THEN ServiceUuid[t] ELSE t

CharacteristicsTypes_get_uuid(t) ==
    IF t \in DOMAIN CharUuid THEN CharUuid[t] ELSE t

KnownServiceType(t) == t \in DOMAIN ServiceUuid \/ t \in Range(ServiceUuid)
KnownCharType(t) == t \in DOMAIN CharUuid \/ t \in Range(CharUuid)

\* Attributes of a Characteristic that are serialized only when set.
AttrNames == {"description", "value", "min_value", "max_value",
              "valid_values", "unit", "min_step", "max_len"}

\* defaults_for(uuid): what the registry implies for a characteristic type.
RegistryDefaults(uuid) ==
    CASE uuid = "25" -> [format |-> "bool", perms |-> <<"pr", "pw", "ev">>]
      [] uuid = "8"  -> [format |-> "int", perms |-> <<"pr", "pw", "ev">>,
                         min_value |-> "0", max_value |-> "100", min_step |-> "1",
                         unit |-> "percentage"]
      [] uuid = "14" -> [format |-> "bool", perms |-> <<"pw">>]
      [] uuid \in {"23", "20", "21", "30", "52"} ->
                        [format |-> "string", perms |-> <<"pr">>]
      [] OTHER -> [format |-> None, perms |-> <<"pr">>]

\* required_characteristics_for(service uuid), in creation order.
RequiredCharacteristics(uuid) ==
    CASE uuid = "43" -> <<"on">>
      [] uuid = "49" -> <<"on">>
      [] OTHER -> <<>>

(***************************************************************************)
(* Results of calls: a value, or the exception raised.                     *)
(***************************************************************************)
\* val is a tuple of integers: << >> for None or no value, <<v>> for one
\* value, the positions of the services for a sequence of services.
Ok(v) == [ok |-> TRUE, val |-> v, err |-> None]
Raise(e) == [ok |-> FALSE, val |-> <<>>, err |-> e]

\* The spec's error names, as the Python code raises them.
NotFoundError == "StopIteration"        \* next() on an exhausted filter
MalformedRecordError == "KeyError"      \* data[key] with the key missing

(***************************************************************************)
(* Accessory, Service, Characteristic.                                     *)
(*   Accessory:      [aid, next_id, services, origin]                      *)
(*   Service:        [iid, type, characteristics, linked]                  *)
(*   Characteristic: [iid, type, perms, format, attrs]                     *)
(* attrs maps the optional attributes that are set to their values.        *)
(* linked lists positions in the accessory's services, in the order the    *)
(* links were added.  origin records which constructor built the accessory *)
(* ("init", "create_with_info", "create_from_dict"); no operation reads it.*)
(***************************************************************************)

\* Accessory.get_next_id: bump the private counter and return it.
get_next_id_stale(acc) == [acc |-> acc, id |-> acc.next_id + 1]
get_next_id_past_stored(acc) ==
    LET ids == {acc.next_id}
               \cup {acc.services[i].iid : i \in DOMAIN acc.services}
               \cup UNION {{acc.services[i].characteristics[j].iid :
                               j \in DOMAIN acc.services[i].characteristics} :
                           i \in DOMAIN acc.services}
        top == CHOOSE m \in ids : \A x \in ids : x <= m
    IN [acc |-> [acc EXCEPT !.next_id = top + 1], id |-> top + 1]
get_next_id(acc) ==
    [acc |-> [acc EXCEPT !.next_id = @ + 1], id |-> acc.next_id + 1]

\* Characteristic._get_configuration over every option: a supplied option
\* wins, else the registry's default for the type, else the option is unset.
Configured(uuid, kwargs, key) ==
    IF key \in DOMAIN kwargs THEN kwargs[key] ELSE RegistryDefaults(uuid)[key]

IsConfigured(uuid, kwargs, key) ==
    key \in DOMAIN kwargs \/ key \in DOMAIN RegistryDefaults(uuid)

\* Characteristic(service, char_type, **kwargs): the iid comes from the
\* owning accessory's counter.
Characteristic(acc, char_type, kwargs) ==
    With(get_next_id(acc), LAMBDA n :
      With(CharacteristicsTypes_get_uuid(char_type), LAMBDA uuid :
        [acc |-> n.acc,
         char |-> [iid |-> n.id,
                   type |-> uuid,
                   perms |-> Configured(uuid, kwargs, "perms"),
                   format |-> Configured(uuid, kwargs, "format"),
                   attrs |-> [k \in {an \in AttrNames : IsConfigured(uuid, kwargs, an)}
                                |-> Configured(uuid, kwargs, k)]]]))

HasChar(svc, uuid) == \E i \in DOMAIN svc.characteristics :
                          svc.characteristics[i].type = uuid

\* Service.add_char on a service of accessory acc: [ok, err, acc, svc].
Service_add_char(acc, svc, char_type, kwargs) ==
    IF ~KnownCharType(char_type)
    THEN [ok |-> FALSE, err |-> "UnknownTypeError", acc |-> acc, svc |-> svc]
    ELSE IF HasChar(svc, CharacteristicsTypes_get_uuid(char_type))
    THEN [ok |-> FALSE, err |-> "DuplicateCharacteristicError", acc |-> acc, svc |-> svc]
    ELSE With(Characteristic(acc, char_type, kwargs), LAMBDA c :
            [ok |-> TRUE, err |-> None, acc |-> c.acc,
             svc |-> [svc EXCEPT !.characteristics = Append(@, c.char)]])

\* The required characteristics of a new service, added in registry order.
RECURSIVE AddRequired(_, _, _)
AddRequired(acc, svc, types) ==
    IF types = <<>> THEN [acc |-> acc, svc |-> svc]
    ELSE With(Service_add_char(acc, svc, Head(types), << >>), LAMBDA r :
            AddRequired(r.acc, r.svc, Tail(types)))

\* Service(accessory, service_type, add_required=...).
Service(acc, service_type, add_required) ==
    With(get_next_id(acc), LAMBDA n :
      With([iid |-> n.id, type |-> ServicesTypes_get_uuid(service_type),
            characteristics |-> <<>>, linked |-> <<>>], LAMBDA svc :
        IF add_required THEN AddRequired(n.acc, svc, RequiredCharacteristics(svc.type))
        ELSE [acc |-> n.acc, svc |-> svc]))

\* Services.append
Services_insert(services, svc) == <<svc>> \o services
Services_append(services, svc) == Append(services, svc)

\* Accessory.add_service: build the Service, append it, return it (its position).
add_service(acc, service_type, add_required) ==
    With(Service(acc, service_type, add_required), LAMBDA s :
        [acc |-> [s.acc EXCEPT !.services = Services_append(@, s.svc)],
         sidx |-> Len(acc.services) + 1])

\* service.add_char for the service at position sidx of acc: [ok, err, acc].
add_char(acc, sidx, char_type, kwargs) ==
    With(Service_add_char(acc, acc.services[sidx], char_type, kwargs), LAMBDA r :
        [ok |-> r.ok, err |-> r.err,
         acc |-> [r.acc EXCEPT !.services[sidx] = r.svc]])

\* Service.add_linked_service: s1 links to s2 (no effect if it already does).
add_linked_service(acc, s1, s2) ==
    IF s2 \in Range(acc.services[s1].linked) THEN acc
    ELSE [acc EXCEPT !.services[s1].linked = Append(@, s2)]

\* mixin.get_id: the process-wide generator.
get_id(counter) == [counter |-> counter + 1, id |-> counter + 1]

\* Accessory.__init__
Accessory_init_peek(counter) ==
    [counter |-> counter,
     acc |-> [aid |-> counter + 1, next_id |-> 0, services |-> <<>>, origin |-> "init"]]
Accessory_init(counter) ==
    With(get_id(counter), LAMBDA g :
        [counter |-> g.counter,
         acc |-> [aid |-> g.id, next_id |-> 0, services |-> <<>>, origin |-> "init"]])

\* Accessory.create_with_info
create_with_info(counter, name, manufacturer, model, serial_number, firmware_revision) ==
    With(Accessory_init(counter), LAMBDA a0 :
    With(add_service(a0.acc, "accessory-information", FALSE), LAMBDA s :
    With(add_char(s.acc, s.sidx, "identify", [description |-> "Identify"]), LAMBDA c1 :
    With(add_char(c1.acc, s.sidx, "name", [value |-> name]), LAMBDA c2 :
    With(add_char(c2.acc, s.sidx, "manufacturer", [value |-> manufacturer]), LAMBDA c3 :
    With(add_char(c3.acc, s.sidx, "model", [value |-> model]), LAMBDA c4 :
    With(add_char(c4.acc, s.sidx, "serial-number", [value |-> serial_number]), LAMBDA c5 :
    With(add_char(c5.acc, s.sidx, "firmware.revision", [value |-> firmware_revision]), LAMBDA c6 :
        [counter |-> a0.counter, acc |-> [c6.acc EXCEPT !.origin = "create_with_info"]]
    ))))))))

\* Every instance id an accessory's entities carry, services first then
\* each service's characteristics.
RECURSIVE CharIids(_)
CharIids(chars) ==
    IF chars = <<>> THEN <<>> ELSE <<Head(chars).iid>> \o CharIids(Tail(chars))

RECURSIVE EntityIids(_)
EntityIids(services) ==
    IF services = <<>> THEN <<>>
    ELSE <<Head(services).iid>> \o CharIids(Head(services).characteristics)
         \o EntityIids(Tail(services))

(***************************************************************************)
(* The Services query engine.  Query arguments:                            *)
(*   service_type     None, or a type name / uuid                          *)
(*   characteristics  the mapping as its (name, value) entries in dict     *)
(*                    order; << >> when absent or empty (both are falsy)   *)
(*   parent_service, child_service   << >> when absent, else <<position>>  *)
(***************************************************************************)

\* Services.iid: next(filter(lambda service: service.iid == iid, ...)).
Services_iid_default(services, iid) ==
    LET hits == SelectSeq(Positions(Len(services)), LAMBDA i : services[i].iid = iid)
    IN IF hits = <<>> THEN Ok(<<0>>) ELSE Ok(<<Head(hits)>>)
Services_iid(services, iid) ==
    LET hits == SelectSeq(Positions(Len(services)), LAMBDA i : services[i].iid = iid)
    IN IF hits = <<>> THEN Raise("StopIteration") ELSE Ok(<<Head(hits)>>)

\* Service.__getitem__: the position of the characteristic of that type in
\* the service, 0 when the service has none (the caller then fails).
Service_getitem(svc, name) ==
    LET uuid == CharacteristicsTypes_get_uuid(name)
        hits == SelectSeq(Positions(Len(svc.characteristics)),
                          LAMBDA i : svc.characteristics[i].type = uuid)
    IN IF hits = <<>> THEN 0 ELSE Head(hits)

\* char.value: None while no value is set.
CharValue(char) == IF "value" \in DOMAIN char.attrs THEN char.attrs["value"] ELSE None

\* The entry the k-th characteristics lambda reads when it finally runs.  The
\* lambdas close over the loop variables and run only when the returned
\* iterator is consumed, after the loop has ended: every one of them reads
\* the last entry of the mapping.
ClosureEntry(characteristics, k) == characteristics[Len(characteristics)]

\* The stacked characteristics filters on one service, from the k-th on:
\* "match", "skip", or "raise" (service[characteristic] failed).
RECURSIVE CharFilters(_, _, _)
CharFilters(svc, characteristics, k) ==
    IF k > Len(characteristics) THEN "match"
    ELSE LET e == ClosureEntry(characteristics, k)
             c == Service_getitem(svc, e.name)
         IN IF c = 0 THEN "raise"
            ELSE IF CharValue(svc.characteristics[c]) # e.value THEN "skip"
            ELSE CharFilters(svc, characteristics, k + 1)

\* The parent_service / child_service lambdas on the service at position i.
ParentFilter(services, args, i) ==
    args.parent_service = <<>> \/ i \in Range(services[args.parent_service[1]].linked)

ChildFilterSwapped(services, args, i) ==
    args.child_service = <<>> \/ i \in Range(services[args.child_service[1]].linked)
ChildFilter(services, args, i) ==
    args.child_service = <<>> \/ args.child_service[1] \in Range(services[i].linked)

\* What the chain of filters built by Services.filter does with the service
\* at position i: the filters run innermost (first built) first.
FilterOne(services, args, i) ==
    LET svc == services[i]
        byType == args.service_type = None
                  \/ svc.type = ServicesTypes_get_uuid(args.service_type)
        byChars == IF byType THEN CharFilters(svc, args.characteristics, 1) ELSE "skip"
    IN IF byChars # "match" THEN byChars
       ELSE IF ParentFilter(services, args, i) /\ ChildFilter(services, args, i)
            THEN "match" ELSE "skip"

\* Services.filter, consumed to the end (list(services.filter(...))): the
\* matching positions in order, or the exception the iteration raises.
Services_filter(services, args) ==
    LET n == Len(services)
    IN IF \E i \in 1..n : FilterOne(services, args, i) = "raise"
       THEN Raise("MissingCharacteristicError")
       ELSE Ok(SelectSeq(Positions(n), LAMBDA i : FilterOne(services, args, i) = "match"))

\* Services.first: next() on the filter; only StopIteration becomes None.
\* The result value is << >> for None, <<position>> for a service.
RECURSIVE FirstFrom(_, _, _)
FirstFrom(services, args, i) ==
    IF i > Len(services) THEN Ok(<<>>)
    ELSE LET r == FilterOne(services, args, i)
         IN IF r = "raise" THEN Raise("MissingCharacteristicError")
            ELSE IF r = "match" THEN Ok(<<i>>)
            ELSE FirstFrom(services, args, i + 1)

Services_first(services, args) == FirstFrom(services, args, 1)

(***************************************************************************)
(* Serialization.  A serialized record is a Python dict, modelled as a     *)
(* function from the keys that are present to their values.                *)
(***************************************************************************)
WireKeys == {"description", "value", "minValue", "maxValue",
             "valid-values", "unit", "minStep", "maxLen"}

\* The keyword argument create_from_dict passes for a key of the record.
KwargName(w) ==
    CASE w = "minValue" -> "min_value"
      [] w = "maxValue" -> "max_value"
      [] w = "valid-values" -> "valid_values"
      [] w = "minStep" -> "min_step"
      [] w = "maxLen" -> "max_len"
      [] OTHER -> w

\* The key under which a characteristic's attribute is serialized.
WireName(k) ==
    CASE k = "min_value" -> "minValue"
      [] k = "max_value" -> "maxValue"
      [] k = "valid_values" -> "valid-values"
      [] k = "min_step" -> "minStep"
      [] k = "max_len" -> "maxLen"
      [] OTHER -> k

\* Characteristic.to_accessory_and_service_list: the mandatory fields, and
\* each optional attribute only when it is set.
Characteristic_to_dict(char) ==
    [k \in {"iid", "type", "perms", "format"} \cup {WireName(an) : an \in DOMAIN char.attrs} |->
        CASE k = "iid" -> char.iid
          [] k = "type" -> char.type
          [] k = "perms" -> char.perms
          [] k = "format" -> char.format
          [] OTHER -> char.attrs[KwargName(k)]]

\* Service.to_accessory_and_service_list: links are written as iids.
Service_to_dict(services, svc) ==
    [iid |-> svc.iid,
     type |-> svc.type,
     characteristics |-> [i \in DOMAIN svc.characteristics |->
                             Characteristic_to_dict(svc.characteristics[i])],
     linked |-> [i \in DOMAIN svc.linked |-> services[svc.linked[i]].iid]]

\* Accessory.to_accessory_and_service_list
Accessory_to_dict(acc) ==
    [aid |-> acc.aid,
     services |-> [i \in DOMAIN acc.services |->
                      Service_to_dict(acc.services, acc.services[i])]]

\* Accessories.serialize: the list of accessory records.
serialize(accs) == [i \in DOMAIN accs |-> Accessory_to_dict(accs[i])]

(***************************************************************************)
(* Python values at the top level of a document, and JSON text.            *)
(***************************************************************************)
PyList(items) == [pytype |-> "list", items |-> items]
PyDict(key, val) == [pytype |-> "dict", key |-> key, val |-> val]

\* Iterating a list yields its items, iterating a dict yields its keys.
Iterate(v) ==
    IF v.pytype = "list"
    THEN [i \in DOMAIN v.items |-> [pytype |-> "dict", val |-> v.items[i]]]
    ELSE <<[pytype |-> "str", val |-> v.key]>>

\* json.dumps / json.load on a top-level value: a list is written between
\* brackets, a dict between braces as key : value.
json_dumps(v) ==
    IF v.pytype = "list" THEN <<"[", v.items, "]">>
    ELSE <<"{", v.key, ":", <<"[", v.val.items, "]">>, "}">>

json_load(text) ==
    IF text[1] = "[" THEN PyList(text[2])
    ELSE PyDict(text[2], PyList(text[4][2]))

\* Accessories.to_accessory_and_service_list
to_accessory_and_service_list(accs) ==
    json_dumps(PyDict("accessories", PyList(serialize(accs))))

(***************************************************************************)
(* Deserialization.                                                        *)
(***************************************************************************)
Failed(e, acc) == [ok |-> FALSE, err |-> e, acc |-> acc]
Done(acc) == [ok |-> TRUE, err |-> None, acc |-> acc]

\* The kwargs create_from_dict builds for a characteristic record.
CharKwargs(char_data) ==
    [k \in {"perms", "format"} \cup {KwargName(w) : w \in WireKeys \cap DOMAIN char_data} |->
        char_data[WireName(k)]]

\* The inner loop of the first pass: the characteristics of one service.
RECURSIVE LoadChars(_, _, _)
LoadChars(acc, sidx, chars) ==
    IF chars = <<>> THEN Done(acc)
    ELSE With(Head(chars), LAMBDA cd :
            IF {"perms", "format", "type"} \ DOMAIN cd # {} THEN Failed("KeyError", acc)
            ELSE With(add_char(acc, sidx, cd["type"], CharKwargs(cd)), LAMBDA r :
                   IF ~r.ok THEN Failed(r.err, acc)
                   ELSE IF "iid" \notin DOMAIN cd THEN Failed("KeyError", acc)
                   ELSE LoadChars(
                          [r.acc EXCEPT !.services[sidx].characteristics[
                                            Len(r.acc.services[sidx].characteristics)].iid
                                                = cd["iid"]],
                          sidx, Tail(chars))))

\* The first pass: services and their characteristics, iids taken verbatim.
RECURSIVE LoadServices(_, _)
LoadServices(acc, svcs) ==
    IF svcs = <<>> THEN Done(acc)
    ELSE With(Head(svcs), LAMBDA sd :
            IF "type" \notin DOMAIN sd THEN Failed("KeyError", acc)
            ELSE With(add_service(acc, sd["type"], FALSE), LAMBDA r :
                   IF "iid" \notin DOMAIN sd THEN Failed("KeyError", acc)
                   ELSE IF "characteristics" \notin DOMAIN sd THEN Failed("KeyError", acc)
                   ELSE With(LoadChars([r.acc EXCEPT !.services[r.sidx].iid = sd["iid"]],
                                       r.sidx, sd["characteristics"]),
                             LAMBDA c : IF ~c.ok THEN c
                                        ELSE LoadServices(c.acc, Tail(svcs)))))

\* service_data.get("linked", [])
LinkedOf(sd) == IF "linked" \in DOMAIN sd THEN sd["linked"] ELSE <<>>

\* The links of one service record: both ends are looked up by iid among
\* the services of the accessory being built.
RECURSIVE LinkOne_skip(_, _, _)
LinkOne_skip(acc, iid, linked) ==
    IF linked = <<>> THEN Done(acc)
    ELSE With(Services_iid(acc.services, iid), LAMBDA src :
         With(Services_iid(acc.services, Head(linked)), LAMBDA tgt :
            IF ~src.ok \/ ~tgt.ok THEN LinkOne_skip(acc, iid, Tail(linked))
            ELSE LinkOne_skip(add_linked_service(acc, src.val[1], tgt.val[1]),
                              iid, Tail(linked))))

RECURSIVE LinkOne_swapped(_, _, _)
LinkOne_swapped(acc, iid, linked) ==
    IF linked = <<>> THEN Done(acc)
    ELSE With(Services_iid(acc.services, iid), LAMBDA src :
         With(Services_iid(acc.services, Head(linked)), LAMBDA tgt :
            IF ~src.ok THEN Failed(src.err, acc)
            ELSE IF ~tgt.ok THEN Failed(tgt.err, acc)
            ELSE LinkOne_swapped(add_linked_service(acc, tgt.val[1], src.val[1]),
                                 iid, Tail(linked))))

RECURSIVE LinkOne(_, _, _)
LinkOne(acc, iid, linked) ==
    IF linked = <<>> THEN Done(acc)
    ELSE With(Services_iid(acc.services, iid), LAMBDA src :
         With(Services_iid(acc.services, Head(linked)), LAMBDA tgt :
            IF ~src.ok THEN Failed(src.err, acc)
            ELSE IF ~tgt.ok THEN Failed(tgt.err, acc)
            ELSE LinkOne(add_linked_service(acc, src.val[1], tgt.val[1]),
                         iid, Tail(linked))))

\* The second pass.
RECURSIVE LinkServices(_, _)
LinkServices(acc, svcs) ==
    IF svcs = <<>> THEN Done(acc)
    ELSE With(LinkOne(acc, Head(svcs)["iid"], LinkedOf(Head(svcs))), LAMBDA r :
            IF ~r.ok THEN r ELSE LinkServices(r.acc, Tail(svcs)))

\* Accessory.create_from_dict on one element of the iterated document:
\* [counter, ok, err, acc].  cls() runs first, so the generator advances
\* even when the record is then rejected.
create_from_dict(counter, elem) ==
    With(Accessory_init(counter), LAMBDA a0 :
      With(IF elem.pytype = "str" THEN Failed("TypeError", None)
           ELSE IF "aid" \notin DOMAIN elem.val THEN Failed("KeyError", None)
           ELSE IF "services" \notin DOMAIN elem.val THEN Failed("KeyError", None)
           ELSE With(LoadServices([a0.acc EXCEPT !.aid = elem.val["aid"],
                                                 !.origin = "create_from_dict"],
                                  elem.val["services"]),
                     LAMBDA p1 : IF ~p1.ok THEN p1
                                 ELSE LinkServices(p1.acc, elem.val["services"])),
           LAMBDA r : [counter |-> a0.counter, ok |-> r.ok, err |-> r.err,
                       acc |-> IF r.ok THEN r.acc ELSE None]))

\* Accessories.add_accessory
add_accessory(accs, acc) == Append(accs, acc)

\* Accessories.from_list: [counter, ok, err, accs]; the first record that
\* fails ends the load and no collection is returned.
RECURSIVE FromListLoop_skip(_, _, _)
FromListLoop_skip(counter, accs, elems) ==
    IF elems = <<>> THEN [counter |-> counter, ok |-> TRUE, err |-> None, accs |-> accs]
    ELSE With(create_from_dict(counter, Head(elems)), LAMBDA r :
            IF ~r.ok
            THEN FromListLoop_skip(r.counter, accs, Tail(elems))
            ELSE FromListLoop_skip(r.counter, add_accessory(accs, r.acc), Tail(elems)))

RECURSIVE FromListLoop(_, _, _)
FromListLoop(counter, accs, elems) ==
    IF elems = <<>> THEN [counter |-> counter, ok |-> TRUE, err |-> None, accs |-> accs]
    ELSE With(create_from_dict(counter, Head(elems)), LAMBDA r :
            IF ~r.ok
            THEN [counter |-> r.counter, ok |-> FALSE, err |-> r.err, accs |-> <<>>]
            ELSE FromListLoop(r.counter, add_accessory(accs, r.acc), Tail(elems)))

from_list(counter, v) == FromListLoop(counter, <<>>, Iterate(v))

\* Accessories.from_file on a file holding `text`.
from_file(counter, text) == from_list(counter, json_load(text))

\* Accessories.aid: the first accessory of the collection with that aid.
Accessories_aid(accs, aid) ==
    LET hits == SelectSeq(Positions(Len(accs)), LAMBDA i : accs[i].aid = aid)
    IN IF hits = <<>> THEN Raise("StopIteration") ELSE Ok(<<Head(hits)>>)

(***************************************************************************)
(* Inputs of the calls.                                                    *)
(***************************************************************************)
ServiceTypeArgs == {"lightbulb", "49"}          \* a name and a uuid
CharTypeArgs == {"on", "8"}                     \* a name and a uuid
Values == {"0", "1"}
KwargsArgs == {[value |-> v] : v \in Values} \cup {[description |-> "d"]}

\* The characteristics mappings queried: none, one entry, two entries.
CharMaps ==
    {<<>>}
    \cup {<<[name |-> "on", value |-> "1"]>>}
    \cup {<<[name |-> "on", value |-> v], [name |-> "brightness", value |-> w]>> :
             v \in Values, w \in {"1"}}
    \cup {<<[name |-> "brightness", value |-> "1"], [name |-> "on", value |-> "1"]>>}

ServiceRef(acc) == {<<>>} \cup {<<i>> : i \in DOMAIN acc.services}

QueryArgs(acc) ==
    [service_type : {None, "lightbulb"},
     characteristics : CharMaps,
     parent_service : ServiceRef(acc),
     child_service : ServiceRef(acc)]

IidArgs == 1..4

NoCall == [op |-> "none", a |-> 0, arg |-> <<>>, ok |-> TRUE, val |-> <<>>, err |-> None]
Called(op, a, arg, r) ==
    [op |-> op, a |-> a, arg |-> arg, ok |-> r.ok, val |-> r.val, err |-> r.err]

Threads == 1..MaxThreads

\* An object whose __init__ has not assigned anything yet.
Blank == [aid |-> 0, next_id |-> 0, services |-> <<>>, origin |-> "init"]

(***************************************************************************)
(* Building a database by direct construction, and querying it.            *)
(***************************************************************************)
Init ==
    /\ id_counter = 0
    /\ accessories = <<>>
    /\ result = NoCall
    /\ ops = 0
    /\ pc = [t \in Threads |-> "idle"]
    /\ obj = [t \in Threads |-> Blank]
    /\ handed = <<>>
    /\ doc = <<>>
    /\ file = <<>>

thread_vars == <<pc, obj, handed>>
io_vars == <<doc, file>>

\* a = Accessory(); accessories.add_accessory(a)
NewAccessory ==
    /\ ops < MaxOps
    /\ \E r \in {Accessory_init(id_counter)} :
          /\ id_counter' = r.counter
          /\ accessories' = add_accessory(accessories, r.acc)
          /\ result' = Called("Accessory", Len(accessories) + 1, <<>>, Ok(<<r.acc.aid>>))
    /\ ops' = ops + 1
    /\ UNCHANGED <<thread_vars, io_vars>>

\* a = Accessory.create_with_info(...); accessories.add_accessory(a)
CreateWithInfo ==
    /\ ops < MaxOps
    /\ \E r \in {create_with_info(id_counter, "Light", "Acme", "X1", "001", "1.0")} :
          /\ id_counter' = r.counter
          /\ accessories' = add_accessory(accessories, r.acc)
          /\ result' = Called("create_with_info", Len(accessories) + 1, <<>>, Ok(<<r.acc.aid>>))
    /\ ops' = ops + 1
    /\ UNCHANGED <<thread_vars, io_vars>>

\* accessories[a].add_service(service_type, add_required=...)
AddService(a, service_type, add_required) ==
    /\ ops < MaxOps
    /\ \E r \in {add_service(accessories[a], service_type, add_required)} :
          /\ accessories' = [accessories EXCEPT ![a] = r.acc]
          /\ result' = Called("add_service", a, <<>>, Ok(<<r.acc.services[r.sidx].iid>>))
    /\ ops' = ops + 1
    /\ UNCHANGED <<id_counter, thread_vars, io_vars>>

\* accessories[a].services[s].add_char(char_type, **kwargs)
AddChar(a, s, char_type, kwargs) ==
    /\ ops < MaxOps
    /\ \E r \in {add_char(accessories[a], s, char_type, kwargs)} :
          /\ accessories' = [accessories EXCEPT ![a] = r.acc]
          /\ result' = Called("add_char", a, <<s>>,
                              IF r.ok THEN Ok(<<r.acc.next_id>>) ELSE Raise(r.err))
    /\ ops' = ops + 1
    /\ UNCHANGED <<id_counter, thread_vars, io_vars>>

\* accessories[a].services[s1].add_linked_service(accessories[a].services[s2])
AddLinkedService(a, s1, s2) ==
    /\ ops < MaxOps
    /\ accessories' = [accessories EXCEPT ![a] = add_linked_service(accessories[a], s1, s2)]
    /\ result' = Called("add_linked_service", a, <<s1, s2>>, Ok(<<>>))
    /\ ops' = ops + 1
    /\ UNCHANGED <<id_counter, thread_vars, io_vars>>

\* accessories[a].services.iid(x)
CallIid(a, x) ==
    /\ ops < MaxOps
    /\ result' = Called("iid", a, <<x>>, Services_iid(accessories[a].services, x))
    /\ ops' = ops + 1
    /\ UNCHANGED <<id_counter, accessories, thread_vars, io_vars>>

\* list(accessories[a].services.filter(args))
CallFilter(a, args) ==
    /\ ops < MaxOps
    /\ result' = Called("filter", a, <<>>, Services_filter(accessories[a].services, args))
    /\ ops' = ops + 1
    /\ UNCHANGED <<id_counter, accessories, thread_vars, io_vars>>

\* accessories[a].services.first(args)
CallFirst(a, args) ==
    /\ ops < MaxOps
    /\ result' = Called("first", a, <<>>, Services_first(accessories[a].services, args))
    /\ ops' = ops + 1
    /\ UNCHANGED <<id_counter, accessories, thread_vars, io_vars>>

Build ==
    \/ NewAccessory
    \/ CreateWithInfo
    \/ \E a \in DOMAIN accessories :
          \/ \E t \in ServiceTypeArgs, req \in BOOLEAN : AddService(a, t, req)
          \/ \E s \in DOMAIN accessories[a].services :
                \/ \E t \in CharTypeArgs, kw \in KwargsArgs : AddChar(a, s, t, kw)
                \/ \E s2 \in DOMAIN accessories[a].services : AddLinkedService(a, s, s2)

Lookup == \E a \in DOMAIN accessories : \E x \in IidArgs : CallIid(a, x)

Next == Build \/ Lookup

Spec == Init /\ [][Next]_vars

(***************************************************************************)
(* Querying the Services of one accessory while it is being built.         *)
(***************************************************************************)
InitQuery ==
    /\ id_counter = Accessory_init(0).counter
    /\ accessories = add_accessory(<<>>, Accessory_init(0).acc)
    /\ result = NoCall
    /\ ops = 0
    /\ pc = [t \in Threads |-> "idle"]
    /\ obj = [t \in Threads |-> Blank]
    /\ handed = <<>>
    /\ doc = <<>>
    /\ file = <<>>

Grow ==
    \E a \in DOMAIN accessories :
       \/ \E t \in ServiceTypeArgs, req \in BOOLEAN : AddService(a, t, req)
       \/ \E s \in DOMAIN accessories[a].services :
             \/ \E t \in CharTypeArgs, kw \in KwargsArgs : AddChar(a, s, t, kw)
             \/ \E s2 \in DOMAIN accessories[a].services : AddLinkedService(a, s, s2)

Query ==
    \E a \in DOMAIN accessories :
       \/ \E args \in QueryArgs(accessories[a]) : CallFilter(a, args)
       \/ \E args \in QueryArgs(accessories[a]) : CallFirst(a, args)

NextQuery == Grow \/ Query

SpecQuery == InitQuery /\ [][NextQuery]_vars

(***************************************************************************)
(* Loading serialized documents, and changing what was loaded.             *)
(***************************************************************************)
Without(d, k) == [x \in DOMAIN d \ {k} |-> d[x]]

\* Characteristic records: "on", "brightness" with its range, "name" with
\* the remaining optional fields.
CharOn(i) == [iid |-> i, type |-> "25", perms |-> <<"pr", "pw">>, format |-> "bool",
              value |-> "1"]
CharBrightness(i) == [iid |-> i, type |-> "8", perms |-> <<"pr", "pw">>, format |-> "int",
                      value |-> "50", minValue |-> "10", maxValue |-> "90",
                      minStep |-> "5", unit |-> "percentage"]
CharName(i) == [iid |-> i, type |-> "23", perms |-> <<"pr">>, format |-> "string",
                description |-> "Name", maxLen |-> "64"]
                @@ ("valid-values" :> <<"Light", "Lamp">>)

WellFormedChars(i) == {CharOn(i), CharBrightness(i), CharName(i)}
MalformedChars(i) == {Without(CharOn(i), k) : k \in {"iid", "type", "perms", "format"}}

ServiceRecord(i, cs, linked) ==
    [iid |-> i, type |-> "43", characteristics |-> cs, linked |-> linked]

\* One accessory: service 1 with characteristic 2, then a second service
\* whose iid x is or is not the next value of a replayed counter.
TwoServices(aid, c, x, l1, l2) ==
    [aid |-> aid, services |-> <<ServiceRecord(1, <<c>>, l1), ServiceRecord(x, <<>>, l2)>>]

CompleteRecords(aid) ==
    {TwoServices(aid, CharOn(2), x, l1, l2) :
        x \in {3, 4}, l1 \in {<<>>, <<1>>, <<3>>, <<4>>}, l2 \in {<<>>, <<1>>}}
    \cup {TwoServices(aid, c, 4, <<4>>, <<>>) : c \in WellFormedChars(2)}
    \cup {[aid |-> aid, services |-> <<Without(ServiceRecord(1, <<CharOn(2)>>, <<>>), "linked")>>]}

MalformedRecords(aid) ==
    {TwoServices(aid, c, 4, l1, <<>>) : c \in MalformedChars(2), l1 \in {<<>>, <<9>>}}
    \cup {[aid |-> aid, services |-> <<Without(ServiceRecord(1, <<>>, l1), k)>>] :
             k \in {"iid", "type"}, l1 \in {<<>>, <<9>>}}
    \cup {Without(TwoServices(aid, CharOn(2), 4, l1, <<>>), "aid") : l1 \in {<<>>, <<3>>}}

\* The documents loaded: one record, or two records with different aids.
Docs ==
    {<<r>> : r \in CompleteRecords(1) \cup MalformedRecords(1)}
    \cup {<<r1, r2>> :
             r1 \in {TwoServices(1, CharOn(2), 3, l1, <<>>) : l1 \in {<<>>, <<4>>}}
                    \cup {Without(TwoServices(1, CharOn(2), 3, <<>>, <<>>), "aid")},
             r2 \in {TwoServices(2, CharOn(2), 4, <<>>, <<1>>),
                     TwoServices(2, CharOn(2), 4, <<3>>, <<>>),
                     TwoServices(2, Without(CharOn(2), "format"), 4, <<>>, <<>>)}}

InitLoad ==
    /\ id_counter = 0
    /\ accessories = <<>>
    /\ result = NoCall
    /\ ops = 0
    /\ pc = [t \in Threads |-> "idle"]
    /\ obj = [t \in Threads |-> Blank]
    /\ handed = <<>>
    /\ doc \in Docs
    /\ file = <<>>

\* accessories = Accessories.from_list(doc)
FromList ==
    /\ ops < MaxOps
    /\ \E r \in {from_list(id_counter, PyList(doc))} :
          /\ id_counter' = r.counter
          /\ accessories' = IF r.ok THEN r.accs ELSE accessories
          /\ result' = Called("from_list", 0, <<>>,
                              IF r.ok THEN Ok(<<Len(r.accs)>>) ELSE Raise(r.err))
    /\ ops' = ops + 1
    /\ UNCHANGED <<thread_vars, io_vars>>

\* The caller writes accessories.to_accessory_and_service_list() to the file.
Dump ==
    /\ ops < MaxOps
    /\ file' = to_accessory_and_service_list(accessories)
    /\ result' = Called("to_accessory_and_service_list", 0, <<>>, Ok(<<>>))
    /\ ops' = ops + 1
    /\ UNCHANGED <<id_counter, accessories, thread_vars, doc>>

\* The caller writes json.dumps(accessories.serialize()) to the file.
DumpSerialized ==
    /\ ops < MaxOps
    /\ file' = json_dumps(PyList(serialize(accessories)))
    /\ result' = Called("serialize", 0, <<>>, Ok(<<>>))
    /\ ops' = ops + 1
    /\ UNCHANGED <<id_counter, accessories, thread_vars, doc>>

\* accessories = Accessories.from_file(path)
FromFile ==
    /\ ops < MaxOps
    /\ file # <<>>
    /\ \E r \in {from_file(id_counter, file)} :
          /\ id_counter' = r.counter
          /\ accessories' = IF r.ok THEN r.accs ELSE accessories
          /\ result' = Called("from_file", 0, <<>>,
                              IF r.ok THEN Ok(<<Len(r.accs)>>) ELSE Raise(r.err))
    /\ ops' = ops + 1
    /\ UNCHANGED <<thread_vars, io_vars>>

Change ==
    \E a \in DOMAIN accessories :
       \/ AddService(a, "switch", FALSE)
       \/ \E s \in DOMAIN accessories[a].services :
             \/ AddChar(a, s, "brightness", [value |-> "1"])
             \/ \E s2 \in DOMAIN accessories[a].services : AddLinkedService(a, s, s2)

NextLoad == FromList \/ Dump \/ DumpSerialized \/ FromFile \/ Change

SpecLoad == InitLoad /\ [][NextLoad]_vars

(***************************************************************************)
(* Accessories constructed by concurrent threads.  Accessory.__init__ runs *)
(* statement by statement; the generator's allocation is one step.         *)
(***************************************************************************)
\* A thread starts Accessory(): self.aid = get_id()
InitAid(t) ==
    /\ pc[t] = "idle"
    /\ ops < MaxOps
    /\ \E r \in {Accessory_init(id_counter)} :
          /\ id_counter' = r.counter
          /\ handed' = Append(handed, r.acc.aid)
          /\ obj' = [obj EXCEPT ![t] = [Blank EXCEPT !.aid = r.acc.aid]]
    /\ pc' = [pc EXCEPT ![t] = "next_id"]
    /\ ops' = ops + 1
    /\ UNCHANGED <<accessories, result, io_vars>>

\* self._next_id = 0
InitNextId(t) ==
    /\ pc[t] = "next_id"
    /\ obj' = [obj EXCEPT ![t].next_id = Accessory_init(id_counter).acc.next_id]
    /\ pc' = [pc EXCEPT ![t] = "services"]
    /\ UNCHANGED <<id_counter, accessories, result, ops, handed, io_vars>>

\* self.services = Services()
InitServices(t) ==
    /\ pc[t] = "services"
    /\ obj' = [obj EXCEPT ![t].services = Accessory_init(id_counter).acc.services]
    /\ pc' = [pc EXCEPT ![t] = "built"]
    /\ UNCHANGED <<id_counter, accessories, result, ops, handed, io_vars>>

\* The thread hands the finished object to the shared collection.
AddAccessory(t) ==
    /\ pc[t] = "built"
    /\ accessories' = add_accessory(accessories, obj[t])
    /\ result' = Called("Accessory", Len(accessories) + 1, <<t>>, Ok(<<obj[t].aid>>))
    /\ obj' = [obj EXCEPT ![t] = Blank]
    /\ pc' = [pc EXCEPT ![t] = "idle"]
    /\ UNCHANGED <<id_counter, ops, handed, io_vars>>

NextConc == \E t \in Threads : InitAid(t) \/ InitNextId(t) \/ InitServices(t) \/ AddAccessory(t)

SpecConc == Init /\ [][NextConc]_vars

(***************************************************************************)
(* A collection filled by direct constructions and by loads of single      *)
(* records, in any order.                                                  *)
(***************************************************************************)
MixAids == 1..3

\* The records loaded one by one: complete, with pairwise distinct iids.
MixRecords ==
    {[aid |-> x, services |-> <<ServiceRecord(1, <<c>>, <<>>)>>] :
        x \in MixAids, c \in {CharOn(2), CharBrightness(2)}}

LoadedAids == {accessories[a].aid : a \in {i \in DOMAIN accessories :
                                             accessories[i].origin = "create_from_dict"}}

\* accessories.add_accessory(Accessory.create_from_dict(rec)), for a record
\* whose aid no record loaded before carries.
LoadRecord(rec) ==
    /\ ops < MaxOps
    /\ rec["aid"] \notin LoadedAids
    /\ \E r \in {create_from_dict(id_counter, [pytype |-> "dict", val |-> rec])} :
          /\ r.ok
          /\ id_counter' = r.counter
          /\ accessories' = add_accessory(accessories, r.acc)
          /\ result' = Called("create_from_dict", Len(accessories) + 1, <<>>, Ok(<<r.acc.aid>>))
    /\ ops' = ops + 1
    /\ UNCHANGED <<thread_vars, io_vars>>

\* accessories.aid(x)
CallAid(x) ==
    /\ ops < MaxOps
    /\ result' = Called("aid", 0, <<x>>, Accessories_aid(accessories, x))
    /\ ops' = ops + 1
    /\ UNCHANGED <<id_counter, accessories, thread_vars, io_vars>>

NextMix ==
    \/ NewAccessory
    \/ \E rec \in MixRecords : LoadRecord(rec)
    \/ \E x \in MixAids : CallAid(x)

SpecMix == Init /\ [][NextMix]_vars

(***************************************************************************)
(* Several accessories built side by side, with every read operation.      *)
(***************************************************************************)
\* accessories.serialize()
CallSerialize ==
    /\ ops < MaxOps
    /\ result' = Called("serialize", 0, <<>>, Ok(<<Len(serialize(accessories))>>))
    /\ ops' = ops + 1
    /\ UNCHANGED <<id_counter, accessories, thread_vars, io_vars>>

Read ==
    \/ \E a \in DOMAIN accessories :
          \/ \E x \in IidArgs : CallIid(a, x)
          \/ \E args \in QueryArgs(accessories[a]) : CallFilter(a, args)
          \/ \E args \in QueryArgs(accessories[a]) : CallFirst(a, args)
    \/ \E x \in MixAids : CallAid(x)
    \/ CallSerialize

NextFrame == Build \/ Read

SpecFrame == Init /\ [][NextFrame]_vars

(***************************************************************************)
(* Properties of construction and of the query engine.                     *)
(***************************************************************************)
Distinct(s) == \A i, j \in DOMAIN s : i # j => s[i] # s[j]

DirectlyConstructed(acc) == acc.origin \in {"init", "create_with_info"}

\* C1: in an Accessory constructed directly (Accessory() or create_with_info),
\* after any sequence of add_service and add_char calls, no two of its
\* entities (services and characteristics together) carry the same iid.
C1_UniqueIids ==
    \A a \in DOMAIN accessories :
        DirectlyConstructed(accessories[a]) => Distinct(EntityIids(accessories[a].services))

\* An accessory built by create_with_info that has since been given a second
\* service with a characteristic of its own.
C1_Witness ==
    \E a \in DOMAIN accessories :
        /\ accessories[a].origin = "create_with_info"
        /\ Len(accessories[a].services) = 2
        /\ Len(accessories[a].services[2].characteristics) >= 1
        /\ Len(EntityIids(accessories[a].services)) >= 9

OnlyParent(s) == [service_type |-> None, characteristics |-> <<>>,
                  parent_service |-> <<s>>, child_service |-> <<>>]
OnlyChild(s) == [service_type |-> None, characteristics |-> <<>>,
                 parent_service |-> <<>>, child_service |-> <<s>>]

\* C3: once s1.add_linked_service(s2) has been called for two services of
\* one accessory, filter(parent_service=s1) includes s2 and
\* filter(child_service=s2) includes s1.
C3_LinkBothDirections ==
    \A a \in DOMAIN accessories :
        LET svcs == accessories[a].services
        IN \A s1, s2 \in DOMAIN svcs :
              s2 \in Range(svcs[s1].linked) =>
                 /\ Services_filter(svcs, OnlyParent(s1)).ok
                 /\ s2 \in Range(Services_filter(svcs, OnlyParent(s1)).val)
                 /\ Services_filter(svcs, OnlyChild(s2)).ok
                 /\ s1 \in Range(Services_filter(svcs, OnlyChild(s2)).val)

\* s1 links to s2 and not back, and a filter call has just returned one service.
C3_Witness ==
    \E a \in DOMAIN accessories :
        LET svcs == accessories[a].services
        IN \E s1, s2 \in DOMAIN svcs :
              /\ s1 # s2
              /\ s2 \in Range(svcs[s1].linked)
              /\ s1 \notin Range(svcs[s2].linked)
              /\ result.op = "filter" /\ result.a = a /\ result.ok
              /\ result.val = <<s2>>
              /\ Services_filter(svcs, OnlyParent(s1)) = Ok(<<s2>>)
              /\ Services_filter(svcs, OnlyChild(s2)) = Ok(<<s1>>)

\* A service satisfies a characteristics entry when it owns a characteristic
\* of that type whose current value equals the required value.
SatisfiesEntry(svc, e) ==
    \E i \in DOMAIN svc.characteristics :
        /\ svc.characteristics[i].type = CharacteristicsTypes_get_uuid(e.name)
        /\ CharValue(svc.characteristics[i]) = e.value

\* A service satisfies every supplied predicate.
SatisfiesAll(services, args, i) ==
    /\ args.service_type # None =>
          services[i].type = ServicesTypes_get_uuid(args.service_type)
    /\ \A k \in DOMAIN args.characteristics :
          SatisfiesEntry(services[i], args.characteristics[k])
    /\ args.parent_service # <<>> =>
          i \in Range(services[args.parent_service[1]].linked)
    /\ args.child_service # <<>> =>
          args.child_service[1] \in Range(services[i].linked)

Satisfying(services, args) ==
    SelectSeq(Positions(Len(services)), LAMBDA i : SatisfiesAll(services, args, i))

\* C4: whenever Services.filter returns, it returns exactly the services
\* satisfying every supplied predicate, in insertion order; with two or more
\* characteristics entries, every returned service satisfies each entry.
C4_FilterExact ==
    \A a \in DOMAIN accessories :
        \A args \in QueryArgs(accessories[a]) :
            LET r == Services_filter(accessories[a].services, args)
            IN r.ok => r.val = Satisfying(accessories[a].services, args)

\* C5: Services.iid(x) returns a service whose iid is x; when the collection
\* has none it fails with NotFoundError, and never with a default.
C5_IidResult ==
    result.op = "iid" =>
        LET svcs == accessories[result.a].services
        IN IF \E i \in DOMAIN svcs : svcs[i].iid = result.arg[1]
           THEN /\ result.ok
                /\ Len(result.val) = 1
                /\ result.val[1] \in DOMAIN svcs
                /\ svcs[result.val[1]].iid = result.arg[1]
                /\ \A j \in 1..(result.val[1] - 1) : svcs[j].iid # result.arg[1]
           ELSE ~result.ok /\ result.err = NotFoundError

\* C5: ... and the lookup leaves the collection unchanged.
C5_IidLookup ==
    /\ []C5_IidResult
    /\ [][result'.op = "iid" /\ ops' # ops => accessories' = accessories]_vars

\* A lookup of an iid that none of the accessory's services carries.
C5_Witness ==
    /\ result.op = "iid"
    /\ ~result.ok
    /\ Len(accessories[result.a].services) >= 2
    /\ \A i \in DOMAIN accessories[result.a].services :
          accessories[result.a].services[i].iid # result.arg[1]

\* C6: Services.first and Services.filter never raise: first returns the
\* first satisfying service or None, filter the satisfying services; a
\* service that lacks a characteristic named by the characteristics
\* predicate just does not match.
C6_NoResultIsNoError ==
    \A a \in DOMAIN accessories :
        \A args \in QueryArgs(accessories[a]) :
            LET svcs == accessories[a].services
                hits == Satisfying(svcs, args)
            IN /\ Services_filter(svcs, args).ok
               /\ Services_first(svcs, args).ok
               /\ Services_first(svcs, args).val =
                     (IF hits = <<>> THEN <<>> ELSE <<Head(hits)>>)

(***************************************************************************)
(* Properties of serialization and loading.                                *)
(***************************************************************************)

\* C2: for every collection C, from_list(C.serialize()) succeeds and its
\* serialization is identical to C.serialize().
C2_RoundTrip ==
    LET d == serialize(accessories)
        r == from_list(id_counter, PyList(d))
    IN r.ok /\ serialize(r.accs) = d

\* A record lacks one of the mandatory fields aid, iid, type, perms, format.
LacksMandatory(rec) ==
    \/ "aid" \notin DOMAIN rec
    \/ \E i \in DOMAIN rec["services"] :
          LET sd == rec["services"][i]
          IN \/ {"iid", "type"} \ DOMAIN sd # {}
             \/ \E j \in DOMAIN sd["characteristics"] :
                   {"iid", "type", "perms", "format"} \ DOMAIN sd["characteristics"][j] # {}

\* Some linked list of the record names an iid that none of the record's
\* services carries.
DanglingLink(rec) ==
    \E i \in DOMAIN rec["services"] :
        \E l \in Range(LinkedOf(rec["services"][i])) :
            \A j \in DOMAIN rec["services"] :
                "iid" \in DOMAIN rec["services"][j] => rec["services"][j]["iid"] # l

Defective(rec) == LacksMandatory(rec) \/ DanglingLink(rec)

\* The record at position k is the first one of the document that cannot be
\* loaded: the one create_from_dict fails on.
FirstDefective(k) ==
    /\ k \in DOMAIN doc
    /\ Defective(doc[k])
    /\ \A j \in 1..(k - 1) : ~Defective(doc[j])

LoadedDoc == result.op = "from_list"

\* C7 as stated: a record with a dangling link fails with NotFoundError.
C7_DanglingIsNotFound ==
    LoadedDoc =>
        \A k \in DOMAIN doc :
            FirstDefective(k) /\ DanglingLink(doc[k]) =>
                ~result.ok /\ result.err = NotFoundError

\* C7 amended: deserializing a record with a dangling link fails: with
\* NotFoundError when the record has all its mandatory fields, with
\* MalformedRecordError when it also lacks one (the first pass over the
\* record fails before any link is resolved).  A target carried only by a
\* service of another accessory of the document does not resolve.
C7_DanglingFails ==
    LoadedDoc =>
        \A k \in DOMAIN doc :
            FirstDefective(k) /\ DanglingLink(doc[k]) =>
                /\ ~result.ok
                /\ result.err = IF LacksMandatory(doc[k]) THEN MalformedRecordError
                                ELSE NotFoundError

\* The second record links to an iid that only a service of the first,
\* already loaded, record carries, and the load failed with NotFoundError.
C7_Witness ==
    /\ LoadedDoc
    /\ Len(doc) = 2
    /\ ~Defective(doc[1])
    /\ DanglingLink(doc[2]) /\ ~LacksMandatory(doc[2])
    /\ \E i \in DOMAIN doc[2]["services"] :
          \E l \in Range(LinkedOf(doc[2]["services"][i])) :
              \E j \in DOMAIN doc[1]["services"] : doc[1]["services"][j]["iid"] = l
    /\ ~result.ok /\ result.err = NotFoundError

\* C8 as stated: a list holding a record that lacks a mandatory field, at
\* any position, fails with MalformedRecordError.
C8_MalformedIsKeyError ==
    LoadedDoc /\ (\E k \in DOMAIN doc : LacksMandatory(doc[k])) =>
        ~result.ok /\ result.err = MalformedRecordError

\* The outcome of a load of a list holding a record that lacks a mandatory
\* field: the failure of the first record that cannot be loaded.
C8_LoadFails ==
    LoadedDoc /\ (\E k \in DOMAIN doc : LacksMandatory(doc[k])) =>
        /\ ~result.ok
        /\ \A k \in DOMAIN doc :
              FirstDefective(k) =>
                 result.err = IF LacksMandatory(doc[k]) THEN MalformedRecordError
                              ELSE NotFoundError

\* C8 amended: a list holding a record that lacks a mandatory field, at any
\* position, fails to load and the caller receives no collection; the failure
\* is MalformedRecordError unless an earlier record of the list has a
\* dangling link, on which the load has already failed with NotFoundError.
C8_AllOrNothing ==
    /\ []C8_LoadFails
    /\ [][result'.op = "from_list" /\ ops' # ops /\ ~result'.ok
            => accessories' = accessories]_vars

\* A well-formed record followed by one lacking a mandatory field: the load
\* failed and nothing was received.
C8_Witness ==
    /\ LoadedDoc
    /\ Len(doc) = 2
    /\ ~Defective(doc[1])
    /\ LacksMandatory(doc[2])
    /\ ~result.ok /\ result.err = MalformedRecordError
    /\ accessories = <<>>

\* C9: a file holding the document written by to_accessory_and_service_list
\* is loaded by from_file into one Accessory per entry, in order.
C9_FileLoaderAcceptsDocument ==
    result.op = "from_file" /\ file[1] = "{" =>
        /\ result.ok
        /\ Len(accessories) = Len(file[4][2])
        /\ \A i \in DOMAIN accessories : accessories[i].aid = file[4][2][i]["aid"]

(***************************************************************************)
(* Properties of the accessory id generator.                               *)
(***************************************************************************)
\* The aids held by finished accessories and by objects under construction.
AidsObtained ==
    [i \in DOMAIN accessories |-> accessories[i].aid]
    \o SelectSeq([t \in Threads |-> obj[t].aid], LAMBDA x : x # 0)

C11_AidsDistinct ==
    /\ Distinct([i \in DOMAIN accessories |-> accessories[i].aid])
    /\ \A x \in MixAids :
          Cardinality({i \in DOMAIN accessories : accessories[i].aid = x}) <= 1

(***************************************************************************)
(* Properties of link reconstruction.                                      *)
(***************************************************************************)
\* A record create_from_dict can link: complete, its service iids pairwise
\* distinct, every linked iid carried by one of its services.
Linkable(rec) ==
    /\ ~LacksMandatory(rec)
    /\ ~DanglingLink(rec)
    /\ Distinct([i \in DOMAIN rec["services"] |-> rec["services"][i]["iid"]])

\* The positions of the services of the record that service i lists.
ListedBy(rec, i) ==
    {j \in DOMAIN rec["services"] :
        rec["services"][j]["iid"] \in Range(LinkedOf(rec["services"][i]))}

\* C12: a load of linkable records succeeds, whatever the order of the
\* services in a record: every reconstructed service links exactly to the
\* reconstructed services carrying the iids its record lists (a later
\* service, itself, or a service linking back), and filter(parent_service=s)
\* returns those services.
C12_LinksReconstructed ==
    LoadedDoc /\ (\A k \in DOMAIN doc : Linkable(doc[k])) =>
        /\ result.ok
        /\ Len(accessories) = Len(doc)
        /\ \A k \in DOMAIN doc :
              \A i \in DOMAIN doc[k]["services"] :
                  LET svcs == accessories[k].services
                  IN /\ Range(svcs[i].linked) = ListedBy(doc[k], i)
                     /\ Services_filter(svcs, OnlyParent(i)) =
                           Ok(SelectSeq(Positions(Len(svcs)),
                                        LAMBDA j : j \in ListedBy(doc[k], i)))

\* A record was loaded whose first service lists the iid of the second,
\* which comes later in the record and does not link back.
C12_Witness ==
    /\ LoadedDoc /\ result.ok
    /\ Len(doc) = 1 /\ Linkable(doc[1])
    /\ Len(doc[1]["services"]) = 2
    /\ LinkedOf(doc[1]["services"][1]) = <<doc[1]["services"][2]["iid"]>>
    /\ LinkedOf(doc[1]["services"][2]) = <<>>
    /\ accessories[1].services[1].linked = <<2>>
    /\ accessories[1].services[2].linked = <<>>

(***************************************************************************)
(* Properties of the per-accessory counter of a reloaded accessory.        *)
(***************************************************************************)
\* The number of services and characteristics of a record.
EntityCount(rec) ==
    Len(EntityIids([i \in DOMAIN rec["services"] |->
                      [iid |-> 0, characteristics |-> rec["services"][i]["characteristics"]]]))

\* Right after a load every service and characteristic carries the iid of
\* its record, and the accessory's counter stands at the number of entities
\* created, whatever the stored iids are.
C13_StoredKept ==
    LoadedDoc /\ result.ok =>
        \A k \in DOMAIN doc :
            LET svcs == accessories[k].services
                recs == doc[k]["services"]
            IN /\ Len(svcs) = Len(recs)
               /\ \A i \in DOMAIN recs :
                     /\ svcs[i].iid = recs[i]["iid"]
                     /\ Len(svcs[i].characteristics) = Len(recs[i]["characteristics"])
                     /\ \A j \in DOMAIN recs[i]["characteristics"] :
                           svcs[i].characteristics[j].iid = recs[i]["characteristics"][j]["iid"]
               /\ accessories[k].next_id = EntityCount(doc[k])

\* The iid of the entity the last add_service or add_char call created.
AddedIid ==
    LET svcs == accessories[result.a].services
    IN IF result.op = "add_service" THEN svcs[Len(svcs)].iid
       ELSE svcs[result.arg[1]].characteristics[Len(svcs[result.arg[1]].characteristics)].iid

\* C13: create_from_dict keeps the stored iids verbatim and leaves the
\* counter at the number of entities it created; an add_service or add_char
\* on the reloaded accessory is given the counter's next value, whether or
\* not a stored entity already carries it.
C13_ReloadedCounter ==
    /\ []C13_StoredKept
    /\ [][/\ result'.op \in {"add_service", "add_char"} /\ result'.ok /\ ops' # ops
          /\ accessories[result'.a].origin = "create_from_dict"
          => /\ AddedIid' = accessories[result'.a].next_id + 1
             /\ accessories'[result'.a].next_id = accessories[result'.a].next_id + 1]_vars

\* A record with pairwise distinct iids was loaded, and the add_service call
\* that followed gave the new service an iid a stored service carries.
C13_Witness ==
    /\ result.op = "add_service"
    /\ Len(doc) = 1 /\ Len(accessories) = 1
    /\ accessories[1].origin = "create_from_dict"
    /\ ~LacksMandatory(doc[1])
    /\ Distinct(EntityIids([i \in DOMAIN doc[1]["services"] |->
                   [iid |-> doc[1]["services"][i]["iid"],
                    characteristics |-> doc[1]["services"][i]["characteristics"]]]))
    /\ Len(accessories[1].services) = Len(doc[1]["services"]) + 1
    /\ \E i \in DOMAIN doc[1]["services"] :
          accessories[1].services[i].iid = AddedIid

(***************************************************************************)
(* What each operation leaves alone.                                       *)
(***************************************************************************)
\* The iids and the links of the services of an accessory, in order.
Skeleton(acc) ==
    [i \in DOMAIN acc.services |->
        [iid |-> acc.services[i].iid, linked |-> acc.services[i].linked]]

\* C14: add_service and add_char on an accessory leave every other accessory
\* as it was (counter, services, iids, links) and leave the order, the iids
\* and the links of the accessory's existing services as they were, a new
\* service coming last; Services.iid, filter, first, Accessories.aid and
\* serialize change nothing of any accessory.
C14_FrameEffects ==
    [][ops' # ops =>
        /\ result'.op \in {"add_service", "add_char"} =>
              /\ Len(accessories') = Len(accessories)
              /\ \A b \in DOMAIN accessories \ {result'.a} : accessories'[b] = accessories[b]
              /\ Len(accessories'[result'.a].services)
                    = Len(accessories[result'.a].services)
                      + (IF result'.op = "add_service" THEN 1 ELSE 0)
              /\ SubSeq(Skeleton(accessories'[result'.a]), 1,
                        Len(accessories[result'.a].services))
                    = Skeleton(accessories[result'.a])
        /\ result'.op \in {"iid", "filter", "first", "aid", "serialize"} =>
              accessories' = accessories
     ]_vars

\* A service was added to an accessory that already had one, while another
\* accessory of the collection has services of its own.
C14_Witness ==
    /\ result.op = "add_service"
    /\ Len(accessories[result.a].services) >= 2
    /\ \E b \in DOMAIN accessories \ {result.a} : accessories[b].services # <<>>

====
